---------------------------- MODULE Spec2Model ----------------------------
(***************************************************************************)
(* Model of server.js: the CSV ingestion pipeline (sanitizeData, the       *)
(* acceptance condition of loadHospitalData, the module-level store        *)
(* hospitals / districts / states) and the query handlers that read it.    *)
(*                                                                         *)
(* A JavaScript string is a sequence of one-character strings, so that     *)
(* trim, toLowerCase, includes, parseInt, localeCompare and the default    *)
(* sort order are computed character by character.  The value undefined    *)
(* (a column that the CSV row does not have) is the one-element sequence   *)
(* Undefined, whose element is not a character.                            *)
(*                                                                         *)
(* GET /api/hospitals/:id/details reads the store as GET /api/hospitals/:id *)
(* does and adds constant cost figures; it is not modelled.                *)
(***************************************************************************)
EXTENDS Integers, Sequences, FiniteSets, TLC

VARIABLES
    source,       \* the rows the CSV parser will emit, in file order
    fileExists,   \* fs.existsSync(csvPath)
    phase,        \* "missing" | "reading" | "failed" | "ended"
    pos,          \* number of 'data' events delivered so far
    results,      \* the local accumulator of loadHospitalData
    rawHospital,  \* the sanitized row of the last 'data' event
    hospitals,    \* module-level array served by the queries
    districts,    \* module-level Set
    states,       \* module-level Set
    lastReq,      \* the request of the handler that is answering, if any
    lastRes       \* the response it sends: [status, body]

vars == <<source, fileExists, phase, pos, results, rawHospital,
          hospitals, districts, states, lastReq, lastRes>>

----------------------------------------------------------------------------
(* Characters and strings *)

Undefined == <<"undefined">>

UpperChars == <<"A","B","C","D","E","F","G","H","I","J","K","L","M","N","O","P","Q","R","S","T","U","V","W","X","Y","Z">>
LowerChars == <<"a","b","c","d","e","f","g","h","i","j","k","l","m","n","o","p","q","r","s","t","u","v","w","x","y","z">>
DigitChars == <<"0","1","2","3","4","5","6","7","8","9">>
HexLower == <<"a","b","c","d","e","f">>
HexUpper == <<"A","B","C","D","E","F">>

\* UTF-16 code unit order of the characters the model uses
AsciiOrder == <<" ","+","-","0","1","2","3","4","5","6","7","8","9","A","B","C","D","E","F","G","H","I","J","K","L","M","N","O","P","Q","R","S","T","U","V","W","X","Y","Z","_","a","b","c","d","e","f","g","h","i","j","k","l","m","n","o","p","q","r","s","t","u","v","w","x","y","z">>

IndexOf(c, seq) ==
    IF \E i \in 1..Len(seq) : seq[i] = c
    THEN CHOOSE i \in 1..Len(seq) : seq[i] = c
    ELSE 0

IsSpace(c) == c = " "

\* upper-case letter -> lower-case letter
LowerTable ==
    [c \in {UpperChars[i] : i \in 1..Len(UpperChars)} |-> LowerChars[IndexOf(c, UpperChars)]]

LowerChar(c) == IF c \in DOMAIN LowerTable THEN LowerTable[c] ELSE c

toLowerCase(s) == [i \in 1..Len(s) |-> LowerChar(s[i])]

includes(s, w) ==
    \E i \in 0..(Len(s) - Len(w)) : SubSeq(s, i + 1, i + Len(w)) = w

trim(s) ==
    IF \A i \in 1..Len(s) : IsSpace(s[i])
    THEN <<>>
    ELSE LET first == CHOOSE i \in 1..Len(s) :
                          ~IsSpace(s[i]) /\ \A j \in 1..(i - 1) : IsSpace(s[j])
             last  == CHOOSE i \in 1..Len(s) :
                          ~IsSpace(s[i]) /\ \A j \in (i + 1)..Len(s) : IsSpace(s[j])
         IN  SubSeq(s, first, last)

\* JavaScript truthiness of a string-or-undefined value
truthy(v) == v # Undefined /\ v # <<>>

\* v?.toLowerCase().includes(w): undefined when v is undefined, which the
\* negation in the acceptance condition turns into true
optIncludes(v, w) == IF v = Undefined THEN FALSE ELSE includes(toLowerCase(v), w)

----------------------------------------------------------------------------
(* parseInt(string) with no radix *)

NaN == [nan |-> TRUE, val |-> 0]
Num(n) == [nan |-> FALSE, val |-> n]

DigitValue(c, radix) ==
    IF IndexOf(c, DigitChars) > 0 THEN IndexOf(c, DigitChars) - 1
    ELSE IF radix = 16 /\ IndexOf(c, HexLower) > 0 THEN 9 + IndexOf(c, HexLower)
    ELSE IF radix = 16 /\ IndexOf(c, HexUpper) > 0 THEN 9 + IndexOf(c, HexUpper)
    ELSE -1

\* length of the longest prefix of s made of digits of the radix
DigitPrefixLen(s, radix) ==
    IF \A i \in 1..Len(s) : DigitValue(s[i], radix) >= 0
    THEN Len(s)
    ELSE (CHOOSE i \in 1..Len(s) :
              DigitValue(s[i], radix) < 0
              /\ \A j \in 1..(i - 1) : DigitValue(s[j], radix) >= 0) - 1

RECURSIVE DigitsValue(_, _)
DigitsValue(s, radix) ==
    IF s = <<>> THEN 0
    ELSE DigitsValue(SubSeq(s, 1, Len(s) - 1), radix) * radix
         + DigitValue(s[Len(s)], radix)

trimStart(s) ==
    IF \A i \in 1..Len(s) : IsSpace(s[i])
    THEN <<>>
    ELSE LET first == CHOOSE i \in 1..Len(s) :
                          ~IsSpace(s[i]) /\ \A j \in 1..(i - 1) : IsSpace(s[j])
         IN  SubSeq(s, first, Len(s))

parseInt(v) ==
    IF v = Undefined THEN NaN
    ELSE
    LET t      == trimStart(v)
        signed == t # <<>> /\ t[1] \in {"+", "-"}
        u      == IF signed THEN Tail(t) ELSE t
        hex    == Len(u) >= 2 /\ u[1] = "0" /\ u[2] \in {"x", "X"}
        radix  == IF hex THEN 16 ELSE 10
        body   == IF hex THEN SubSeq(u, 3, Len(u)) ELSE u
        n      == DigitPrefixLen(body, radix)
        mag    == DigitsValue(SubSeq(body, 1, n), radix)
    IN  IF n = 0 THEN NaN
        ELSE IF signed /\ t[1] = "-" THEN Num(0 - mag) ELSE Num(mag)

\* parseInt(x) > n ; every comparison with NaN is false
greaterThan(p, n) == ~p.nan /\ p.val > n

----------------------------------------------------------------------------
(* sanitizeData *)

sanitizeData(data) ==
    [key \in DOMAIN data |->
        IF data[key] = <<>> \/ data[key] = <<"0">> THEN <<>> ELSE trim(data[key])]

\* property read: undefined when the object has no such key
Get(obj, key) == IF key \in DOMAIN obj THEN obj[key] ELSE Undefined

\* the hospital object built from the sanitized row; the fields that neither
\* the acceptance condition nor any query reads are copied the same way and
\* are left out
Hospital(raw) ==
    [ id          |-> Get(raw, "Sr_No"),
      name        |-> Get(raw, "Hospital_Name"),
      category    |-> Get(raw, "Hospital_Category"),
      careType    |-> Get(raw, "Hospital_Care_Type"),
      medicine    |-> Get(raw, "Discipline_Systems_of_Medicine"),
      state       |-> Get(raw, "State"),
      district    |-> Get(raw, "District"),
      subdistrict |-> Get(raw, "Subdistrict"),
      specialties |-> Get(raw, "Specialties"),
      totalBeds   |-> Get(raw, "Total_Num_Beds"),
      doctors     |-> Get(raw, "Number_Doctor") ]

----------------------------------------------------------------------------
(* The acceptance condition of the 'data' handler *)

W_allopathy == <<"a","l","l","o","p","a","t","h","y">>
W_dispensary == <<"d","i","s","p","e","n","s","a","r","y">>
W_nursing_sp_home == <<"n","u","r","s","i","n","g"," ","h","o","m","e">>
W_children == <<"c","h","i","l","d","r","e","n">>
W_child == <<"c","h","i","l","d">>
W_pediatric == <<"p","e","d","i","a","t","r","i","c">>
W_nursing == <<"n","u","r","s","i","n","g">>
W_nursinghome == <<"n","u","r","s","i","n","g","h","o","m","e">>
W_nursing_hy_home == <<"n","u","r","s","i","n","g","-","h","o","m","e">>
W_nursing_home == <<"n","u","r","s","i","n","g","_","h","o","m","e">>
W_clinic == <<"c","l","i","n","i","c">>
W_health_sp_center == <<"h","e","a","l","t","h"," ","c","e","n","t","e","r">>
W_health_sp_centre == <<"h","e","a","l","t","h"," ","c","e","n","t","r","e">>
W_healthcare_sp_center == <<"h","e","a","l","t","h","c","a","r","e"," ","c","e","n","t","e","r">>
W_healthcare_sp_centre == <<"h","e","a","l","t","h","c","a","r","e"," ","c","e","n","t","r","e">>

\* the conjuncts evaluated before the first hospital.category.toLowerCase()
reachesCategory(h) ==
    /\ truthy(h.name)
    /\ truthy(h.medicine)
    /\ includes(toLowerCase(h.medicine), W_allopathy)

\* hospital.category.toLowerCase() on an undefined category is a TypeError
throwsTypeError(h) == reachesCategory(h) /\ h.category = Undefined

\* the remaining conjuncts, in source order
passesExclusions(h) ==
    LET name == toLowerCase(h.name)
        category == toLowerCase(h.category)
    IN
    /\ ~includes(category, W_dispensary)
    /\ ~includes(category, W_nursing_sp_home)
    /\ ~includes(name, W_children)
    /\ ~includes(name, W_child)
    /\ ~optIncludes(h.specialties, W_pediatric)
    /\ ~optIncludes(h.specialties, W_children)
    /\ ~includes(name, W_nursing_sp_home)
    /\ ~includes(name, W_nursing)
    /\ ~includes(name, W_nursing_sp_home)
    /\ ~includes(name, W_nursinghome)
    /\ ~includes(name, W_nursing_hy_home)
    /\ ~includes(name, W_nursing_home)
    /\ ~includes(category, W_nursing)
    /\ ~optIncludes(h.careType, W_nursing)
    /\ ~includes(name, W_clinic)
    /\ ~includes(name, W_dispensary)
    /\ ~includes(name, W_health_sp_center)
    /\ ~includes(name, W_health_sp_centre)
    /\ ~includes(name, W_healthcare_sp_center)
    /\ ~includes(name, W_healthcare_sp_centre)

bedsOk(h) == truthy(h.totalBeds) /\ greaterThan(parseInt(h.totalBeds), 10)

doctorsOk(h) == truthy(h.doctors) /\ greaterThan(parseInt(h.doctors), 2)

\* outcome of the try block for one hospital: "accept" (pushed), "reject"
\* (condition false) or "throw" (caught by the handler's catch)
Classify(h) ==
    IF throwsTypeError(h) THEN "throw"
    ELSE IF reachesCategory(h) /\ passesExclusions(h) /\ bedsOk(h) /\ doctorsOk(h)
         THEN "accept"
         ELSE "reject"


----------------------------------------------------------------------------
(* The 'data' handler's effect on the accumulator and on the two Sets *)

\* variant: an error in one row discards what was accumulated
pushOrResetOnThrow(res, h) ==
    IF Classify(h) = "throw" THEN <<>>
    ELSE IF Classify(h) = "accept" THEN Append(res, h) ELSE res

pushIfAccepted(res, h) ==
    IF Classify(h) = "accept" THEN Append(res, h) ELSE res

\* variant: the district is collected before the row is classified
addDistrictOfAnyRow(set, h) ==
    IF truthy(h.district) /\ truthy(trim(h.district))
    THEN set \cup {trim(h.district)}
    ELSE set

addDistrict(set, h) ==
    IF Classify(h) = "accept" /\ truthy(h.district) /\ truthy(trim(h.district))
    THEN set \cup {trim(h.district)}
    ELSE set

addState(set, h) ==
    IF Classify(h) = "accept" /\ truthy(h.state) /\ truthy(trim(h.state))
    THEN set \cup {trim(h.state)}
    ELSE set

----------------------------------------------------------------------------
(* Orders: the default sort order, localeCompare, Array.prototype.sort *)

CodeUnit(c) == IndexOf(c, AsciiOrder)

\* a < b in the order of Array.prototype.sort() without a comparator
codeUnitLess(a, b) ==
    \/ Len(a) < Len(b) /\ SubSeq(b, 1, Len(a)) = a
    \/ \E i \in 1..Len(a) :
          /\ i <= Len(b)
          /\ SubSeq(a, 1, i - 1) = SubSeq(b, 1, i - 1)
          /\ CodeUnit(a[i]) < CodeUnit(b[i])

\* [...set].sort()
RECURSIVE sortStrings(_)
sortStrings(set) ==
    IF set = {} THEN <<>>
    ELSE LET least == CHOOSE x \in set : \A y \in set \ {x} : codeUnitLess(x, y)
         IN  <<least>> \o sortStrings(set \ {least})

\* primary collation weight of a character in the root collation: white
\* space, punctuation, symbols, digits, then letters without regard to case
CollationOrder == <<" ","_","-","+","0","1","2","3","4","5","6","7","8","9","a","b","c","d","e","f","g","h","i","j","k","l","m","n","o","p","q","r","s","t","u","v","w","x","y","z">>

Primary(c) == IndexOf(LowerChar(c), CollationOrder)

\* a.localeCompare(b): primary weights decide; between strings that differ
\* in case only, the first difference decides, lower case first
localeCompare(a, b) ==
    LET pa == [i \in 1..Len(a) |-> Primary(a[i])]
        pb == [i \in 1..Len(b) |-> Primary(b[i])]
        n  == IF Len(a) < Len(b) THEN Len(a) ELSE Len(b)
    IN  IF \E i \in 1..n : pa[i] # pb[i]
        THEN LET i == CHOOSE k \in 1..n :
                          pa[k] # pb[k] /\ \A j \in 1..(k - 1) : pa[j] = pb[j]
             IN  IF pa[i] < pb[i] THEN -1 ELSE 1
        ELSE IF Len(a) < Len(b) THEN -1
        ELSE IF Len(a) > Len(b) THEN 1
        ELSE IF a = b THEN 0
        ELSE LET i == CHOOSE k \in 1..n :
                          a[k] # b[k] /\ \A j \in 1..(k - 1) : a[j] = b[j]
             IN  IF LowerChar(a[i]) = a[i] THEN -1 ELSE 1

\* one step of a stable sort: x goes behind the last element that the
\* comparator does not put after it; order[i] is comparator(sorted[i], x)
insertSorted(sorted, x, order) ==
    LET keep == {i \in 1..Len(sorted) : order[i] <= 0}
        k    == IF keep = {} THEN 0 ELSE CHOOSE i \in keep : \A j \in keep : j <= i
    IN  SubSeq(sorted, 1, k) \o <<x>> \o SubSeq(sorted, k + 1, Len(sorted))


----------------------------------------------------------------------------
(* Route handlers.  A handler that sorts returns the store array as it     *)
(* leaves it together with the response; filter() makes a new array, so    *)
(* the in-place sort works on that copy.                                   *)

Ok(body) == [status |-> 200, body |-> body]
BadRequest(msg) == [status |-> 400, body |-> [error |-> msg]]
NotFound(msg) == [status |-> 404, body |-> [error |-> msg]]

sameDistrict(h, district) ==
    truthy(h.district) /\ toLowerCase(h.district) = toLowerCase(district)

sameState(h, state) ==
    truthy(h.state) /\ toLowerCase(h.state) = toLowerCase(state)

\* hospital.subdistrict && hospital.subdistrict.toLowerCase().includes(...)
inLocality(h, locality) ==
    truthy(h.subdistrict) /\ includes(toLowerCase(h.subdistrict), toLowerCase(locality))

nameContains(h, query) ==
    truthy(h.name) /\ includes(toLowerCase(h.name), toLowerCase(query))

\* variant: the comparator never reports a tie
localityCompareNoTie(a, b, locality) ==
    IF optIncludes(a.subdistrict, toLowerCase(locality)) THEN -1 ELSE 1

\* comparator of GET /api/hospitals/district/:district
localityCompare(a, b, locality) ==
    LET aInLocality == optIncludes(a.subdistrict, toLowerCase(locality))
        bInLocality == optIncludes(b.subdistrict, toLowerCase(locality))
    IN  IF aInLocality /\ ~bInLocality THEN -1
        ELSE IF ~aInLocality /\ bInLocality THEN 1
        ELSE 0

RECURSIVE sortByLocality(_, _)
sortByLocality(arr, locality) ==
    IF arr = <<>> THEN <<>>
    ELSE LET sorted == sortByLocality(SubSeq(arr, 1, Len(arr) - 1), locality)
             x == arr[Len(arr)]
         IN  insertSorted(sorted, x,
                 [i \in 1..Len(sorted) |-> localityCompare(sorted[i], x, locality)])

\* variant: the store itself is sorted, then filtered
districtHandlerSortsStore(store, district, locality) ==
    LET test(h) == sameDistrict(h, district)
        sorted == IF truthy(locality) THEN sortByLocality(store, locality) ELSE store
    IN  [hospitals |-> sorted, res |-> Ok(SelectSeq(sorted, test))]

districtHandler(store, district, locality) ==
    IF ~truthy(district)
    THEN [hospitals |-> store, res |-> BadRequest("District parameter is required")]
    ELSE LET test(h) == sameDistrict(h, district)
             filteredHospitals == SelectSeq(store, test)
         IN  [hospitals |-> store,
              res |-> Ok(IF truthy(locality)
                         THEN sortByLocality(filteredHospitals, locality)
                         ELSE filteredHospitals)]

\* variant: the exact-match level is missing
searchCompareNoExact(a, b, query, locality) ==
    LET aInLocality == truthy(locality) /\ optIncludes(a.subdistrict, toLowerCase(locality))
        bInLocality == truthy(locality) /\ optIncludes(b.subdistrict, toLowerCase(locality))
    IN  IF aInLocality /\ ~bInLocality THEN -1
        ELSE IF ~aInLocality /\ bInLocality THEN 1
        ELSE localeCompare(a.name, b.name)

\* comparator of GET /api/hospitals/search
searchCompare(a, b, query, locality) ==
    LET aExactMatch == toLowerCase(a.name) = toLowerCase(query)
        bExactMatch == toLowerCase(b.name) = toLowerCase(query)
        aInLocality == truthy(locality) /\ optIncludes(a.subdistrict, toLowerCase(locality))
        bInLocality == truthy(locality) /\ optIncludes(b.subdistrict, toLowerCase(locality))
    IN  IF aExactMatch /\ ~bExactMatch THEN -1
        ELSE IF ~aExactMatch /\ bExactMatch THEN 1
        ELSE IF aInLocality /\ ~bInLocality THEN -1
        ELSE IF ~aInLocality /\ bInLocality THEN 1
        ELSE localeCompare(a.name, b.name)

RECURSIVE sortByRelevance(_, _, _)
sortByRelevance(arr, query, locality) ==
    IF arr = <<>> THEN <<>>
    ELSE LET sorted == sortByRelevance(SubSeq(arr, 1, Len(arr) - 1), query, locality)
             x == arr[Len(arr)]
         IN  insertSorted(sorted, x,
                 [i \in 1..Len(sorted) |-> searchCompare(sorted[i], x, query, locality)])

searchHandler(store, query, district, locality) ==
    IF ~truthy(query)
    THEN [hospitals |-> store, res |-> BadRequest("Search query is required")]
    ELSE LET byName(h) == nameContains(h, query)
             byDistrict(h) == ~truthy(district) \/ sameDistrict(h, district)
             byLocality(h) == ~truthy(locality) \/ inLocality(h, locality)
             filteredHospitals ==
                 SelectSeq(SelectSeq(SelectSeq(store, byName), byDistrict), byLocality)
         IN  [hospitals |-> store,
              res |-> Ok(sortByRelevance(filteredHospitals, query, locality))]

stateHandler(store, state) ==
    LET test(h) == sameState(h, state)
    IN  IF ~truthy(state) THEN BadRequest("State parameter is required")
        ELSE Ok(SelectSeq(store, test))

stateDistrictsHandler(store, state) ==
    IF ~truthy(state) THEN BadRequest("State parameter is required")
    ELSE Ok(sortStrings({store[i].district :
                i \in {j \in 1..Len(store) :
                          sameState(store[j], state) /\ truthy(store[j].district)}}))

localityHandler(store, locality) ==
    LET test(h) == inLocality(h, locality)
    IN  IF ~truthy(locality) THEN BadRequest("Locality parameter is required")
        ELSE Ok(SelectSeq(store, test))

\* hospitals.find(h => h.id === id)
idHandler(store, id) ==
    IF ~truthy(id) THEN BadRequest("Hospital ID is required")
    ELSE IF \E i \in 1..Len(store) : store[i].id = id
    THEN Ok(store[CHOOSE i \in 1..Len(store) :
                     store[i].id = id /\ \A j \in 1..(i - 1) : store[j].id # id])
    ELSE NotFound("Hospital not found")


----------------------------------------------------------------------------
(* Inputs *)

\* longest CSV file of the query specification, in rows
MaxRows == 3

A_Allopathy == <<"A","l","l","o","p","a","t","h","y">>

Row(id, name, category, state, district, subdistrict) ==
    [ Sr_No                          |-> id,
      Hospital_Name                  |-> name,
      Hospital_Category              |-> category,
      Hospital_Care_Type             |-> <<"P","v","t">>,
      Discipline_Systems_of_Medicine |-> A_Allopathy,
      State                          |-> state,
      District                       |-> district,
      Subdistrict                    |-> subdistrict,
      Specialties                    |-> <<"E","N","T">>,
      Total_Num_Beds                 |-> <<"5","0">>,
      Number_Doctor                  |-> <<"1","0">> ]

\* a row of a line with no cell under these columns
Without(row, keys) == [k \in DOMAIN row \ keys |-> row[k]]

\* a row with the columns whose value is Undefined left out
Present(row) == [k \in {c \in DOMAIN row : row[c] # Undefined} |-> row[k]]

\* four accepted rows of one district, written in different case, two of them
\* in the locality "ko"
RowAb  == Row(<<"1">>, <<"A","b">>, <<"G">>, <<"M","h">>, <<"P","u">>, <<"K","o">>)
Rowab  == Row(<<"2">>, <<"a","b">>, <<"G">>, <<"M","H">>, <<"p","u">>, <<"0">>)
RowAbc == Row(<<"3">>, <<"A","b","c">>, <<"G">>, <<"M","h">>, <<" ","P","u">>, <<"x","k","o">>)
\* blank state, no Subdistrict cell
RowB == Without(Row(<<"4">>, <<"B">>, <<"G">>, <<" ">>, <<"P","U">>, <<>>), {"Subdistrict"})
\* rejected by its category
RowNursing == Row(<<"5">>, <<"A","b">>, <<"N","u","r","s","i","n","g"," ","H","o","m","e">>,
                  <<"K","a">>, <<"N","a">>, <<"K","o">>)
\* no Hospital_Category cell
RowNoCategory == Without(Row(<<"1">>, <<"A","b">>, <<>>, <<"T","n">>, <<"C","h">>, <<"K","o">>),
                         {"Hospital_Category"})

Rows == {RowAb, Rowab, RowAbc, RowB, RowNursing, RowNoCategory}

SeqsUpTo(S, n) == UNION {[1..k -> S] : k \in 0..n}

DistrictParams == {<<"P","U">>, <<"N","a">>}
StateParams == {<<"m","h">>, <<"K","a">>}
LocalityParams == {<<"k","O">>}
QueryParams == {<<"A","B">>, <<"b">>}
IdParams == {<<"1">>, <<"9">>}
Optional(S) == S \cup {Undefined}

\* rows for the acceptance condition: every combination of these cells
WideNames == {Undefined, <<>>, <<"0">>, <<" ","A"," ">>, <<"C","H","I","L","D">>,
              <<"C","l","i","n","i","c">>}
WideMedicines == {Undefined, <<"A","y">>, A_Allopathy,
                  <<" ","A","L","L","O","P","A","T","H","Y">>}
WideCategories == {Undefined, <<>>, <<"G">>, <<"D","i","s","p","e","n","s","a","r","y">>,
                   <<"N","U","R","S","I","N","G">>}
WideSpecialties == {Undefined, <<"E","N","T">>, <<"P","e","d","i","a","t","r","i","c","s">>}
WideCareTypes == {Undefined, <<"P","v","t">>, <<"N","u","r","s","i","n","g">>}
WideBeds == {Undefined, <<"0">>, <<" ","0">>, <<"1","0">>, <<"1","1">>,
             <<"5","0"," ","b">>, <<"a","b">>}
WideDoctors == {Undefined, <<>>, <<"2">>, <<"3">>, <<"3","x">>}

WideRows ==
    { Present([ Hospital_Name                  |-> n,
                Discipline_Systems_of_Medicine |-> m,
                Hospital_Category              |-> c,
                Specialties                    |-> s,
                Hospital_Care_Type             |-> t,
                Total_Num_Beds                 |-> b,
                Number_Doctor                  |-> d ]) :
        n \in WideNames, m \in WideMedicines, c \in WideCategories,
        s \in WideSpecialties, t \in WideCareTypes, b \in WideBeds,
        d \in WideDoctors }

----------------------------------------------------------------------------
(* State machine *)

NoReq == [op |-> "none"]
NoRes == [status |-> 0, body |-> <<>>]

InitCommon ==
    /\ phase = IF fileExists THEN "reading" ELSE "missing"
    /\ pos = 0
    /\ results = <<>>
    /\ rawHospital = <<>>
    /\ hospitals = <<>>
    /\ districts = {}
    /\ states = {}
    /\ lastReq = NoReq
    /\ lastRes = NoRes

Init ==
    /\ fileExists \in BOOLEAN
    /\ source \in IF fileExists THEN SeqsUpTo(Rows, MaxRows) ELSE {<<>>}
    /\ InitCommon

InitWide ==
    /\ fileExists = TRUE
    /\ source \in {<<r>> : r \in WideRows}
    /\ InitCommon

Idle == lastReq = NoReq

loaderVars == <<source, fileExists, phase, pos, results, rawHospital>>
storeVars == <<hospitals, districts, states>>

\* .on('data', ...)
OnData ==
    /\ Idle
    /\ phase = "reading"
    /\ pos < Len(source)
    /\ LET data == source[pos + 1]
           raw == sanitizeData(data)
           hospital == Hospital(raw)
       IN  /\ rawHospital' = raw
           /\ results' = pushIfAccepted(results, hospital)
           /\ districts' = addDistrict(districts, hospital)
           /\ states' = addState(states, hospital)
    /\ pos' = pos + 1
    /\ UNCHANGED <<source, fileExists, phase, hospitals, lastReq, lastRes>>

\* .on('end', ...)
OnEnd ==
    /\ Idle
    /\ phase = "reading"
    /\ pos = Len(source)
    /\ hospitals' = results
    /\ phase' = "ended"
    /\ UNCHANGED <<source, fileExists, pos, results, rawHospital, districts, states,
                   lastReq, lastRes>>

\* .on('error', ...) of the read stream: logged; the parser never ends
OnStreamError ==
    /\ Idle
    /\ phase = "reading"
    /\ phase' = "failed"
    /\ UNCHANGED <<source, fileExists, pos, results, rawHospital, storeVars,
                   lastReq, lastRes>>

GetHospitals ==
    /\ Idle
    /\ lastReq' = [op |-> "listAll"]
    /\ lastRes' = Ok(hospitals)
    /\ UNCHANGED <<loaderVars, storeVars>>

GetByDistrict ==
    /\ Idle
    /\ \E district \in DistrictParams, locality \in Optional(LocalityParams) :
          LET out == districtHandler(hospitals, district, locality)
          IN  /\ lastReq' = [op |-> "byDistrict", district |-> district,
                             locality |-> locality]
              /\ lastRes' = out.res
              /\ hospitals' = out.hospitals
    /\ UNCHANGED <<loaderVars, districts, states>>

GetByState ==
    /\ Idle
    /\ \E state \in StateParams :
          /\ lastReq' = [op |-> "byState", state |-> state]
          /\ lastRes' = stateHandler(hospitals, state)
    /\ UNCHANGED <<loaderVars, storeVars>>

GetStateDistricts ==
    /\ Idle
    /\ \E state \in StateParams :
          /\ lastReq' = [op |-> "districtsForState", state |-> state]
          /\ lastRes' = stateDistrictsHandler(hospitals, state)
    /\ UNCHANGED <<loaderVars, storeVars>>

GetSearch ==
    /\ Idle
    /\ \E query \in Optional(QueryParams), district \in Optional(DistrictParams),
          locality \in Optional(LocalityParams) :
          LET out == searchHandler(hospitals, query, district, locality)
          IN  /\ lastReq' = [op |-> "search", query |-> query, district |-> district,
                             locality |-> locality]
              /\ lastRes' = out.res
              /\ hospitals' = out.hospitals
    /\ UNCHANGED <<loaderVars, districts, states>>

GetDistricts ==
    /\ Idle
    /\ lastReq' = [op |-> "districts"]
    /\ lastRes' = Ok(sortStrings(districts))
    /\ UNCHANGED <<loaderVars, storeVars>>

GetStates ==
    /\ Idle
    /\ lastReq' = [op |-> "states"]
    /\ lastRes' = Ok(sortStrings(states))
    /\ UNCHANGED <<loaderVars, storeVars>>

GetById ==
    /\ Idle
    /\ \E id \in IdParams :
          /\ lastReq' = [op |-> "byId", id |-> id]
          /\ lastRes' = idHandler(hospitals, id)
    /\ UNCHANGED <<loaderVars, storeVars>>

GetByLocality ==
    /\ Idle
    /\ \E locality \in LocalityParams :
          /\ lastReq' = [op |-> "byLocality", locality |-> locality]
          /\ lastRes' = localityHandler(hospitals, locality)
    /\ UNCHANGED <<loaderVars, storeVars>>

\* the handler returns: handlers run one at a time, to completion
ResponseSent ==
    /\ ~Idle
    /\ lastReq' = NoReq
    /\ lastRes' = NoRes
    /\ UNCHANGED <<loaderVars, storeVars>>

Next ==
    \/ OnData
    \/ OnEnd
    \/ OnStreamError
    \/ GetHospitals
    \/ GetByDistrict
    \/ GetByState
    \/ GetStateDistricts
    \/ GetSearch
    \/ GetDistricts
    \/ GetStates
    \/ GetById
    \/ GetByLocality
    \/ ResponseSent

Spec == Init /\ [][Next]_vars

NextLoad ==
    \/ OnData
    \/ OnEnd
    \/ OnStreamError

SpecWide == InitWide /\ [][NextLoad]_vars


----------------------------------------------------------------------------
(* Properties of the store and of the responses *)

\* for every row of Rows, its hospital object and the outcome of the try block
RowTable ==
    [r \in Rows |->
        LET h == Hospital(sanitizeData(r))
        IN  [hospital |-> h, outcome |-> Classify(h)]]

\* the hospital object of the i-th row of the file, and its outcome
HospitalOf(i) == RowTable[source[i]].hospital
OutcomeOf(i) == RowTable[source[i]].outcome

\* the accepted rows among the first n, in file order
AcceptedUpTo(n) ==
    LET accepted(i) == OutcomeOf(i) = "accept"
        kept == SelectSeq([i \in 1..n |-> i], accepted)
    IN  [k \in 1..Len(kept) |-> HospitalOf(kept[k])]

NonEmptyValues(seq, field) ==
    {seq[i][field] : i \in {j \in 1..Len(seq) : truthy(seq[j][field])}}

\* the store once every row of the file has been processed and committed
FullHospitals == AcceptedUpTo(Len(source))
FullDistricts == NonEmptyValues(FullHospitals, "district")
FullStates == NonEmptyValues(FullHospitals, "state")

\* the response to a request from a store with these contents
Response(req, hs, ds, ss) ==
    CASE req.op = "listAll" -> Ok(hs)
      [] req.op = "byDistrict" -> districtHandler(hs, req.district, req.locality).res
      [] req.op = "byState" -> stateHandler(hs, req.state)
      [] req.op = "districtsForState" -> stateDistrictsHandler(hs, req.state)
      [] req.op = "search" ->
             searchHandler(hs, req.query, req.district, req.locality).res
      [] req.op = "districts" -> Ok(sortStrings(ds))
      [] req.op = "states" -> Ok(sortStrings(ss))
      [] req.op = "byId" -> idHandler(hs, req.id)
      [] req.op = "byLocality" -> localityHandler(hs, req.locality)

Count(seq, x) == Cardinality({i \in 1..Len(seq) : seq[i] = x})

\* C1: every query answers from the empty store or from the fully loaded
\* store, never from a partially loaded collection or derived set.
C1_NoPartialLoadVisible ==
    ~Idle =>
        \/ lastRes = Response(lastReq, <<>>, {}, {})
        \/ lastRes = Response(lastReq, FullHospitals, FullDistricts, FullStates)

\* C3: when the source is missing or reading it fails, before or after some
\* rows, the store is empty: no records, no districts, no states.
C3_FailureLeavesStoreEmpty ==
    phase \in {"missing", "failed"} =>
        /\ hospitals = <<>>
        /\ sortStrings(districts) = <<>>
        /\ sortStrings(states) = <<>>

\* C4: at every moment of ingestion and after it, districts is exactly the
\* set of non-empty district values of the rows accepted so far, and states
\* the set of their non-empty state values; no empty string is in either,
\* and rejected rows and rows that raised an error contribute nothing.
C4_DerivedSetsAreOfAcceptedRows ==
    /\ LET accepted == AcceptedUpTo(pos)
       IN  /\ districts = NonEmptyValues(accepted, "district")
           /\ states = NonEmptyValues(accepted, "state")
    /\ <<>> \notin districts
    /\ <<>> \notin states

\* an accepted row with a district and a blank state, a rejected row and a
\* row that raised an error, each with a district of its own, are processed
C4_Witness ==
    /\ \E i \in 1..pos :
          /\ OutcomeOf(i) = "accept"
          /\ HospitalOf(i).district \in districts
          /\ HospitalOf(i).state = <<>>
    /\ \E i \in 1..pos :
          /\ OutcomeOf(i) = "reject"
          /\ truthy(HospitalOf(i).district)
          /\ HospitalOf(i).district \notin districts
    /\ \E i \in 1..pos :
          /\ OutcomeOf(i) = "throw"
          /\ truthy(HospitalOf(i).district)
          /\ HospitalOf(i).district \notin districts

\* C8: a row whose processing raises an error is skipped and leaves the
\* accumulated records as they were; after the commit the served records
\* are exactly the accepted rows, in file order.
C8_CommitIsAcceptedSubsequence ==
    /\ results = AcceptedUpTo(pos)
    /\ phase = "ended" => hospitals = AcceptedUpTo(Len(source))

\* committed: an accepted row, a row that raised an error, an accepted row
C8_Witness ==
    /\ phase = "ended"
    /\ Len(source) = 3
    /\ OutcomeOf(1) = "accept"
    /\ OutcomeOf(2) = "throw"
    /\ OutcomeOf(3) = "accept"
    /\ hospitals = <<HospitalOf(1), HospitalOf(3)>>

\* C9: once the store is committed, no step changes the records or the two
\* derived sets, the re-ordering queries included.
C9_QueriesLeaveStoreUnchanged ==
    [][phase = "ended" => storeVars' = storeVars]_vars

\* after the commit, a district query with a locality answered in another
\* order than the store's
C9_Witness ==
    /\ phase = "ended"
    /\ lastReq.op = "byDistrict"
    /\ truthy(lastReq.locality)
    /\ LET test(h) == sameDistrict(h, lastReq.district)
       IN  /\ Len(lastRes.body) >= 2
           /\ lastRes.body # SelectSeq(hospitals, test)


\* subdistrict contains the locality, without regard to case; an absent or
\* empty subdistrict contains nothing
MatchesLocality(h, locality) ==
    /\ h.subdistrict # Undefined
    /\ includes(toLowerCase(h.subdistrict), toLowerCase(locality))

\* C6: byDistrict(D, locality=L) answers with exactly the records of
\* district D (without regard to case), those whose subdistrict contains L
\* first, each of the two groups in the order of listAll().
C6_DistrictQueryIsStablePartition ==
    (lastReq.op = "byDistrict" /\ truthy(lastReq.locality)) =>
        LET ofDistrict(h) == h.district # Undefined
                             /\ toLowerCase(h.district) = toLowerCase(lastReq.district)
            near(h) == MatchesLocality(h, lastReq.locality)
            far(h) == ~MatchesLocality(h, lastReq.locality)
            all == SelectSeq(hospitals, ofDistrict)
        IN  /\ lastRes.status = 200
            /\ lastRes.body = SelectSeq(all, near) \o SelectSeq(all, far)

\* three records of the district: two outside the locality around one inside
\* it, so that the answer moves one record and must keep the order of two
C6_Witness ==
    /\ lastReq.op = "byDistrict"
    /\ truthy(lastReq.locality)
    /\ Len(lastRes.body) = 3
    /\ Len(hospitals) = 3
    /\ ~MatchesLocality(hospitals[1], lastReq.locality)
    /\ MatchesLocality(hospitals[2], lastReq.locality)
    /\ ~MatchesLocality(hospitals[3], lastReq.locality)
    /\ hospitals[1] # hospitals[3]
    /\ lastRes.body = <<hospitals[2], hospitals[1], hospitals[3]>>

ExactName(h, query) == toLowerCase(h.name) = toLowerCase(query)

\* the records search(Q, district?, locality?) has to return, in store order
SearchCandidates(query, district, locality) ==
    LET wanted(h) ==
            /\ h.name # Undefined
            /\ includes(toLowerCase(h.name), toLowerCase(query))
            /\ district # Undefined =>
                   (h.district # Undefined
                    /\ toLowerCase(h.district) = toLowerCase(district))
            /\ locality # Undefined => MatchesLocality(h, locality)
    IN  SelectSeq(hospitals, wanted)

\* C7: search answers with exactly the records whose name contains Q and
\* that pass the district and locality filters given, those whose name
\* equals Q first, each of the two groups by ascending name; a single
\* record whose name equals Q is the first of the answer.
C7_SearchIsFilteredAndRanked ==
    (lastReq.op = "search" /\ truthy(lastReq.query)) =>
        LET body == lastRes.body
            want == SearchCandidates(lastReq.query, lastReq.district, lastReq.locality)
            exact(h) == ExactName(h, lastReq.query)
        IN  /\ lastRes.status = 200
            /\ Len(body) = Len(want)
            /\ \A i \in 1..Len(want) : Count(body, want[i]) = Count(want, want[i])
            /\ \A i \in 1..Len(body) : \A j \in (i + 1)..Len(body) :
                  /\ exact(body[j]) => exact(body[i])
                  /\ (exact(body[i]) <=> exact(body[j])) =>
                         localeCompare(body[i].name, body[j].name) <= 0
            /\ Cardinality({i \in 1..Len(want) : exact(want[i])}) = 1 => exact(body[1])

\* three matches, the only record whose name equals Q last in the store and
\* last by name, first in the answer
C7_Witness ==
    /\ lastReq.op = "search"
    /\ truthy(lastReq.query)
    /\ Len(lastRes.body) = 3
    /\ Len(hospitals) = 3
    /\ ExactName(hospitals[3], lastReq.query)
    /\ ~ExactName(hospitals[1], lastReq.query)
    /\ ~ExactName(hospitals[2], lastReq.query)
    /\ localeCompare(hospitals[2].name, hospitals[1].name) < 0
    /\ lastRes.body = <<hospitals[3], hospitals[2], hospitals[1]>>

----------------------------------------------------------------------------
(* The acceptance condition and the normalizer, over WideRows *)

ContainsWord(v, w) == v # Undefined /\ includes(toLowerCase(v), w)

ExcludedNameWords ==
    {W_children, W_child, W_nursing, W_nursing_sp_home, W_nursinghome,
     W_nursing_hy_home, W_nursing_home, W_clinic, W_dispensary,
     W_health_sp_center, W_health_sp_centre, W_healthcare_sp_center,
     W_healthcare_sp_centre}

\* the eight predicates; a check against an absent field fails when the
\* field must include a word and passes when it must not
EightPredicates(h) ==
    /\ truthy(h.name)
    /\ truthy(h.medicine) /\ ContainsWord(h.medicine, W_allopathy)
    /\ ~ContainsWord(h.category, W_dispensary) /\ ~ContainsWord(h.category, W_nursing)
    /\ \A w \in ExcludedNameWords : ~ContainsWord(h.name, w)
    /\ ~ContainsWord(h.specialties, W_pediatric) /\ ~ContainsWord(h.specialties, W_children)
    /\ ~ContainsWord(h.careType, W_nursing)
    /\ greaterThan(parseInt(h.totalBeds), 10)
    /\ greaterThan(parseInt(h.doctors), 2)

\* C2: a row is accepted if and only if the eight predicates hold, a row
\* with no category, specialties or careType passing the checks on them.
C2_AcceptedIffEightPredicates ==
    phase = "ended" =>
        (hospitals # <<>> <=> EightPredicates(Hospital(sanitizeData(source[1]))))

\* wholly a decimal integer numeral
IsNumeral(v) ==
    /\ v # Undefined
    /\ v # <<>>
    /\ \A i \in 1..Len(v) : IndexOf(v[i], DigitChars) > 0

\* C10: a row whose totalBeds or doctors is not wholly a decimal integer
\* numeral is rejected; an accepted row has a numeral above 10 and a
\* numeral above 2 there.
C10_NonNumericCountsRejected ==
    \A i \in 1..Len(hospitals) :
        /\ IsNumeral(hospitals[i].totalBeds)
        /\ DigitsValue(hospitals[i].totalBeds, 10) > 10
        /\ IsNumeral(hospitals[i].doctors)
        /\ DigitsValue(hospitals[i].doctors, 10) > 2

IsBlank(v) == \A i \in 1..Len(v) : IsSpace(v[i])

\* C5: every value of the normalized row is trimmed and is never "0"; raw
\* values that are empty, blank or "0", with or without blanks around it,
\* come out as "".
C5_NormalizedTrimmedNeverZero ==
    \A key \in DOMAIN rawHospital :
        LET out == rawHospital[key]
            in == source[pos][key]
        IN  /\ out # <<"0">>
            /\ out # <<>> => ~IsSpace(out[1]) /\ ~IsSpace(out[Len(out)])
            /\ (IsBlank(in) \/ trim(in) = <<"0">>) => out = <<>>

=============================================================================
